---- MODULE Spec2Model ----
(***************************************************************************)
(* tarsnapper: the tier ("delta") parser and configuration loader of       *)
(* config.py, and the archive cache, backup matcher, expire and make       *)
(* operations and the command loop of script.py.                           *)
(*                                                                         *)
(* Text is a sequence of one-character strings.  A Python value that may   *)
(* be None is a sequence of length at most one: <<>> is None and <<x>> is  *)
(* the value x.  A call that may raise returns [err, val]: err is "none"   *)
(* or the name of the exception raised.  A timedelta is its number of      *)
(* seconds, a datetime the number of seconds since an arbitrary origin.    *)
(***************************************************************************)
EXTENDS Integers, Sequences, FiniteSets, TLC

VARIABLES
    delta_string,   \* the argument of a parse_deltas call (None or text)
    parsed,         \* None before that call, Some(result) after it
    pc,             \* main's position
    config,         \* the mapping yaml.load returns for the configuration file
    args,           \* what parse_args returned: [config, jobs, target, ...]
    loaded,         \* None, or Some(what load_config returned or raised)
    jobs,           \* the value main binds to `jobs`, with its Python type
    kbackups,       \* the backups (identifier -> datetime) given to the retention call
    ktiers,         \* the tier list given to it (None or a list)
    know,           \* the instant it is made at
    kept,           \* None before the call, Some(its result) after it
    command,        \* args.command: "make", "expire" or "list"
    dryrun,         \* TarsnapBackend.dryrun
    no_expire,      \* args.no_expire
    todo,           \* the jobs of jobs_to_run.values() the loop has not finished
    archive_list,   \* TarsnapBackend._archive_list: None or Some(list)
    store,          \* the archives tarsnap holds, in the order it lists them
    calls,          \* the external calls made so far: [op, arg, ok]
    step,           \* where main's loop is
    pending,        \* names expire's loop has still to delete
    clock,          \* datetime.utcnow()
    view,           \* what the last get_backups of a command saw and returned
    err,            \* the exception that ended the run, or "none"
    sim,            \* a backend in dry-run mode: [archive_list, store, calls, err]
    real,           \* a backend not in dry-run mode given the same operations
    last,           \* None, or Some(the last operation and the real backend before it)
    tnow,           \* datetime.utcnow() for the two backends
    nops            \* the number of operations the two backends were given

confVars == <<delta_string, parsed, pc, config, args, loaded, jobs>>

keepVars == <<kbackups, ktiers, know, kept>>

runVars == <<command, dryrun, no_expire, todo, archive_list, store, calls, step, pending, clock, view, err>>

opsVars == <<sim, real, last, tnow, nops>>

vars == <<confVars, keepVars, runVars, opsVars>>

None == <<>>
Some(x) == <<x>>

Ok(v) == [err |-> "none", val |-> v]
Raise(e) == [err |-> e, val |-> None]

(***************************************************************************)
(* Text helpers: str.endswith, str.find(';') == -1, str.split(sep),        *)
(* str.strip, int(text).                                                   *)
(***************************************************************************)
EndsWith(text, c) == Len(text) > 0 /\ text[Len(text)] = c

Contains(text, c) == \E i \in 1..Len(text) : text[i] = c

ButLast(text) == SubSeq(text, 1, Len(text) - 1)

\* str.split(sep): the pieces between the separators, empty pieces included.
RECURSIVE SplitFrom(_, _, _, _)
SplitFrom(text, sep, i, cur) ==
    IF i > Len(text) THEN <<cur>>
    ELSE IF text[i] = sep THEN <<cur>> \o SplitFrom(text, sep, i + 1, <<>>)
    ELSE SplitFrom(text, sep, i + 1, Append(cur, text[i]))

Split(text, sep) == SplitFrom(text, sep, 1, <<>>)

\* str.strip(): leading and trailing blanks removed.
RECURSIVE Strip(_)
Strip(text) ==
    IF text = <<>> THEN text
    ELSE IF text[1] = " " THEN Strip(Tail(text))
    ELSE IF text[Len(text)] = " " THEN Strip(ButLast(text))
    ELSE text

Digits == {"0", "1", "2", "3", "4", "5", "6", "7", "8", "9"}

DigitVal(c) ==
    CASE c = "0" -> 0 [] c = "1" -> 1 [] c = "2" -> 2 [] c = "3" -> 3
      [] c = "4" -> 4 [] c = "5" -> 5 [] c = "6" -> 6 [] c = "7" -> 7
      [] c = "8" -> 8 [] c = "9" -> 9

RECURSIVE DigitsVal(_)
DigitsVal(ds) ==
    IF ds = <<>> THEN 0 ELSE 10 * DigitsVal(ButLast(ds)) + DigitVal(ds[Len(ds)])

\* int(text): an optional sign and at least one decimal digit, else ValueError.
IntOf(negative, ds) ==
    IF ds = <<>> \/ \E i \in 1..Len(ds) : ds[i] \notin Digits
    THEN Raise("ValueError")
    ELSE Ok(IF negative THEN 0 - DigitsVal(ds) ELSE DigitsVal(ds))

ParseInt(text) ==
    IF Len(text) > 0 /\ text[1] \in {"-", "+"}
    THEN IntOf(text[1] = "-", Tail(text))
    ELSE IntOf(FALSE, text)

SecondsPerHour == 3600
SecondsPerDay == 86400

\* The seconds in the unit a duration text ends with; 0 when it ends with
\* none of 's', 'h', 'd'.
UnitOf(text) ==
    IF EndsWith(text, "s") THEN 1
    ELSE IF EndsWith(text, "h") THEN SecondsPerHour
    ELSE IF EndsWith(text, "d") THEN SecondsPerDay
    ELSE 0

Scaled(n, unit) ==
    IF unit = 0 \/ n.err # "none" THEN Raise("ValueError") ELSE Ok(n.val * unit)

\* config.str_to_timedelta: int(text[:-1]) in the unit of the last
\* character; ValueError from int() or for an unknown unit.
str_to_timedelta(text) == Scaled(ParseInt(ButLast(text)), UnitOf(text))

\* TimeAndStep with the two texts of a "time;step" item taken in the wrong
\* order.
TimeAndStep_Swapped(delta_item, items) ==
    IF ~Contains(delta_item, ";") THEN Ok(<<delta_item, delta_item>>)
    ELSE IF Len(items) # 2 THEN Raise("UnboundLocalError")
    ELSE Ok(<<items[2], items[1]>>)

\* parse_deltas, lines 100-108: the (time, step) texts of one item.  Line 106
\* formats its message with `e`, a local that only the except clause of
\* line 114 binds, so reaching it raises UnboundLocalError and not the
\* ConfigError it names.
TimeAndStep(delta_item, items) ==
    IF ~Contains(delta_item, ";") THEN Ok(<<delta_item, delta_item>>)
    ELSE IF Len(items) # 2 THEN Raise("UnboundLocalError")
    ELSE Ok(<<items[1], items[2]>>)

\* parse_deltas, lines 110-115: a ValueError of either conversion becomes a
\* ConfigError.
DeltaPair(delta_time, delta_step) ==
    IF delta_time.err = "none" /\ delta_step.err = "none"
    THEN Ok(<<delta_time.val, delta_step.val>>)
    ELSE Raise("ConfigError")

DeltaOf(ts) ==
    IF ts.err # "none" THEN ts
    ELSE DeltaPair(str_to_timedelta(ts.val[1]), str_to_timedelta(ts.val[2]))

DeltaItem(delta_item) ==
    IF delta_item = <<>> THEN [err |-> "skip", val |-> None]
    ELSE DeltaOf(TimeAndStep(delta_item, Split(delta_item, ";")))

\* One pass of the loop body of parse_deltas (lines 96-115) on one piece of
\* the split: "skip" for a blank piece, else the (time, step) pair or the
\* exception.
parse_delta_item(piece) == DeltaItem(Strip(piece))

\* The loop of parse_deltas over the pieces: the list built, or the first
\* exception raised.
RECURSIVE parse_delta_items(_, _)
AfterDeltaItem(r, rest, deltas) ==
    IF r.err = "skip" THEN parse_delta_items(rest, deltas)
    ELSE IF r.err # "none" THEN r
    ELSE parse_delta_items(rest, Append(deltas, r.val))

parse_delta_items(pieces, deltas) ==
    IF pieces = <<>> THEN Ok(deltas)
    ELSE AfterDeltaItem(parse_delta_item(Head(pieces)), Tail(pieces), deltas)

\* AtLeastTwo without the test of line 117.
AtLeastTwo_Unchecked(r) ==
    IF r.err # "none" THEN r ELSE Ok(Some(r.val))

\* parse_deltas, lines 117-119: a list of exactly one pair is refused.
AtLeastTwo(r) ==
    IF r.err # "none" THEN r
    ELSE IF r.val # <<>> /\ Len(r.val) < 2 THEN Raise("ConfigError")
    ELSE Ok(Some(r.val))

\* config.parse_deltas: None for None, else the list of (time, step) pairs.
parse_deltas(ds) ==
    IF ds = None THEN Ok(None)
    ELSE AtLeastTwo(parse_delta_items(Split(ds[1], " "), <<>>))

(***************************************************************************)
(* Python dicts are functions on their key set.                            *)
(***************************************************************************)
EmptyDict == <<>>
Has(d, k) == k \in DOMAIN d
Get(d, k, default) == IF Has(d, k) THEN d[k] ELSE default
Without(d, ks) == [x \in (DOMAIN d) \ ks |-> d[x]]

\* A target template is a sequence of pieces: literal text, "$name", "$date".
\* Template(text).safe_substitute({var: 'foo'}) == text: var does not occur.
UsesPlaceholder(template, var) ==
    \E i \in 1..Len(template) : template[i] = var

\* config.require_placeholders on an optional text: TRUE when it raises.
require_placeholders_raises(text, placeholders) ==
    text # None /\ \E var \in placeholders : ~UsesPlaceholder(text[1], var)

\* config.Job.__init__: absent keywords are None, excludes defaults to [].
Job(name, aliases, target, dateformat, deltas, sources, excludes, force, exec_before, exec_after) ==
    [name |-> name, aliases |-> aliases, target |-> target,
     dateformat |-> dateformat, deltas |-> deltas, sources |-> sources,
     excludes |-> excludes, force |-> force, exec_before |-> exec_before,
     exec_after |-> exec_after]

\* Python truth of an optional list or text: None and the empty one are false.
Truthy(opt) == opt # None /\ opt[1] # <<>>

\* config.parse_named_deltas, visiting the names in the given order.
RECURSIVE parse_named_deltas(_, _, _)
AfterNamed(r, named_delta_dict, order, named_deltas) ==
    IF r.err # "none" THEN r
    ELSE parse_named_deltas(named_delta_dict, Tail(order), named_deltas @@ (Head(order) :> r.val))

parse_named_deltas(named_delta_dict, order, named_deltas) ==
    IF order = <<>> THEN Ok(named_deltas)
    ELSE IF named_delta_dict[Head(order)] = None THEN Raise("ConfigError")
    ELSE AfterNamed(parse_deltas(named_delta_dict[Head(order)]), named_delta_dict, order, named_deltas)

JobKeys ==
    {"source", "sources", "alias", "aliases", "exclude", "excludes", "delta",
     "deltas", "target", "force", "dateformat", "exec_before", "exec_after"}

\* load_config, lines 148-171 and 184-195: the Job built from the job's
\* dict, the deltas chosen and the global defaults.
NewJob(job_name, job_dict, deltas, default_dateformat, default_target) ==
    Job(Some(job_name),
        IF Has(job_dict, "alias") THEN Some(<<job_dict["alias"]>>) ELSE Get(job_dict, "aliases", None),
        Get(job_dict, "target", default_target),
        Get(job_dict, "dateformat", default_dateformat),
        deltas,
        IF Has(job_dict, "source") THEN Some(<<job_dict["source"]>>) ELSE Get(job_dict, "sources", None),
        IF Has(job_dict, "exclude") THEN <<job_dict["exclude"]>> ELSE Get(job_dict, "excludes", <<>>),
        Get(job_dict, "force", FALSE),
        Get(job_dict, "exec_before", None),
        Get(job_dict, "exec_after", None))

\* CheckedJob without the test for leftover keys of lines 201-203.
CheckedJob_AnyKeys(new_job, job_dict) ==
    IF ~Truthy(new_job.target) THEN Raise("ConfigError")
    ELSE IF require_placeholders_raises(new_job.target, {"$date"}) THEN Raise("ConfigError")
    ELSE Ok(new_job)

\* load_config, lines 196-205: the checks made on the Job once built.
CheckedJob(new_job, job_dict) ==
    IF ~Truthy(new_job.target) THEN Raise("ConfigError")
    ELSE IF require_placeholders_raises(new_job.target, {"$date"}) THEN Raise("ConfigError")
    ELSE IF DOMAIN Without(job_dict, JobKeys) # {} THEN Raise("ConfigError")
    ELSE Ok(new_job)

\* load_config, lines 172-183: the deltas of the job.  `own` is
\* parse_deltas(job_dict.pop('deltas', None)).
JobDeltas(job_dict, own, default_deltas, named_deltas) ==
    IF Has(job_dict, "deltas") /\ Has(job_dict, "delta") THEN Raise("ConfigError")
    ELSE IF Has(job_dict, "delta")
    THEN (IF Has(named_deltas, job_dict["delta"]) THEN Ok(named_deltas[job_dict["delta"]])
          ELSE Raise("ConfigError"))
    ELSE IF own.err # "none" THEN own
    ELSE IF Truthy(own.val) THEN own ELSE Ok(default_deltas)

JobWithDeltas(job_name, job_dict, deltas, default_dateformat, default_target) ==
    IF deltas.err # "none" THEN deltas
    ELSE CheckedJob(NewJob(job_name, job_dict, deltas.val, default_dateformat, default_target), job_dict)

\* The body of load_config's loop for one job (lines 147-205), on the dict
\* `job_dict or {}`: the Job, or the exception raised.
load_job(job_name, job_dict, default_dateformat, default_deltas, default_target, named_deltas) ==
    IF Has(job_dict, "sources") /\ Has(job_dict, "source") THEN Raise("ConfigError")
    ELSE IF Has(job_dict, "aliases") /\ Has(job_dict, "alias") THEN Raise("ConfigError")
    ELSE IF Has(job_dict, "excludes") /\ Has(job_dict, "exclude") THEN Raise("ConfigError")
    ELSE JobWithDeltas(job_name, job_dict,
                       JobDeltas(job_dict, parse_deltas(Get(job_dict, "deltas", None)), default_deltas, named_deltas),
                       default_dateformat, default_target)

\* load_config's loop over the jobs section, in the given order.
RECURSIVE load_jobs(_, _, _, _, _, _, _)
AfterJob(r, jobs_section, order, default_dateformat, default_deltas, default_target, named_deltas, read_jobs) ==
    IF r.err # "none" THEN r
    ELSE load_jobs(jobs_section, Tail(order), default_dateformat, default_deltas, default_target, named_deltas, read_jobs @@ (Head(order) :> r.val))

load_jobs(jobs_section, order, default_dateformat, default_deltas, default_target, named_deltas, read_jobs) ==
    IF order = <<>> THEN Ok(read_jobs)
    ELSE AfterJob(load_job(Head(order),
                           IF jobs_section[Head(order)] = None THEN EmptyDict ELSE jobs_section[Head(order)][1],
                           default_dateformat, default_deltas, default_target, named_deltas),
                  jobs_section, order, default_dateformat, default_deltas, default_target, named_deltas, read_jobs)

\* load_config, line 208: the pair (read_jobs, the global keys not popped).
LoadResult(read, cfg) ==
    IF read.err # "none" THEN read ELSE Ok(<<read.val, cfg.rest>>)

\* load_config, lines 140-205, once the global deltas are parsed.
LoadWithNamed(cfg, default_deltas, named, job_order) ==
    IF named.err # "none" THEN named
    ELSE IF DOMAIN cfg.jobs = {} THEN Raise("ConfigError")
    ELSE LoadResult(load_jobs(cfg.jobs, job_order, cfg.dateformat, default_deltas, cfg.target, named.val, EmptyDict), cfg)

LoadWithDefaults(cfg, default_deltas, name_order, job_order) ==
    IF default_deltas.err # "none" THEN default_deltas
    ELSE IF require_placeholders_raises(cfg.target, {"$name", "$date"}) THEN Raise("ConfigError")
    ELSE LoadWithNamed(cfg, default_deltas.val, parse_named_deltas(cfg.delta_names, name_order, EmptyDict), job_order)

\* config.load_config on the mapping yaml.load produced.  name_order and
\* job_order are the orders in which iteritems() yields the two dicts.
load_config(cfg, name_order, job_order) ==
    LoadWithDefaults(cfg, parse_deltas(cfg.deltas), name_order, job_order)

\* Date formats, by their strftime text: the two built-in ones, a custom
\* day format, and one with a directive strptime refuses.
FmtSeconds == "%Y%m%d-%H%M%S"
FmtMinutes == "%Y%m%d-%H%M"
FmtDay == "%Y%m%d"
FmtBad == "%Q"

DATE_FORMATS == <<FmtSeconds, FmtMinutes>>
DEFAULT_DATEFORMAT == FmtSeconds

\* The seconds one step of a format's last field stands for.
FormatUnit(fmt) ==
    IF fmt = FmtSeconds THEN 1 ELSE IF fmt = FmtMinutes THEN 60 ELSE SecondsPerDay

\* A date text is [fmt, v]: the text a datetime of v units has in the format
\* fmt.  Text that is no date in any format has fmt "garbage".
\* datetime.strftime: the fields the format names, the rest of the datetime
\* dropped; a directive strftime does not know is copied as it stands.
Strftime(t, fmt) ==
    IF fmt = FmtBad THEN [fmt |-> FmtBad, v |-> 0]
    ELSE [fmt |-> fmt, v |-> t \div FormatUnit(fmt)]

\* datetime.strptime: ValueError for a bad directive in the format, and for
\* a text that is not of the format (too short, or with data left over).
Strptime(text, fmt) ==
    IF fmt # FmtBad /\ text.fmt = fmt THEN Ok(text.v * FormatUnit(fmt))
    ELSE Raise("ValueError")

\* script.parse_date: the first of the formats to try that parses the text.
RECURSIVE TryFormats(_, _)
TriedFormat(r, text, formats) ==
    IF r.err = "none" THEN r ELSE TryFormats(text, Tail(formats))

TryFormats(text, formats) ==
    IF formats = <<>> THEN Raise("ValueError")
    ELSE TriedFormat(Strptime(text, Head(formats)), text, formats)

parse_date(text, dateformat) ==
    TryFormats(text, IF dateformat # None /\ dateformat[1] # "" THEN <<dateformat[1]>> ELSE DATE_FORMATS)

(***************************************************************************)
(* The retention call expire.expire(backups, deltas) of script.py line     *)
(* 101.  The module expire is not among the sources; it is modelled from   *)
(* section 4.4 of the specification, computeKeepSet(backups, tiers, now).  *)
(***************************************************************************)
\* floor(a / b) for b # 0
FloorDiv(a, b) == IF b > 0 THEN a \div b ELSE (0 - a) \div (0 - b)

\* Lexical order of two identifiers that differ only in their date text and
\* stand for the same instant: the text to the minute is a prefix of the
\* text to the second.
IdLess(x, y) == x.date.fmt = FmtMinutes /\ y.date.fmt = FmtSeconds

\* Before with the timestamps compared the wrong way round: oldest first.
Before_OldestFirst(backups, x, y) ==
    backups[x] < backups[y] \/ (backups[x] = backups[y] /\ IdLess(x, y))

\* Step 2: timestamp descending, ties by identifier ascending.
Before(backups, x, y) ==
    backups[x] > backups[y] \/ (backups[x] = backups[y] /\ IdLess(x, y))

RECURSIVE SortedFrom(_, _)
PutFirst(first, backups, ids) == <<first>> \o SortedFrom(backups, ids \ {first})

SortedFrom(backups, ids) ==
    IF ids = {} THEN <<>>
    ELSE PutFirst(CHOOSE x \in ids : \A y \in ids \ {x} : Before(backups, x, y), backups, ids)

SortedBackups(backups) == SortedFrom(backups, DOMAIN backups)

\* Step 4: the first tier whose window covers the age; 0 when none does.
TierIndex(tiers, age) ==
    IF \E i \in 1..Len(tiers) : tiers[i][1] >= age
    THEN CHOOSE i \in 1..Len(tiers) : tiers[i][1] >= age /\ \A j \in 1..(i - 1) : tiers[j][1] < age
    ELSE 0

\* Steps 3 to 7, over the backups in order.  A resolution of zero has no
\* bucket: the division raises.
RECURSIVE KeepFrom(_, _, _, _, _, _)
Fill(slot, order, backups, tiers, now, filled, keep) ==
    IF slot \in filled THEN KeepFrom(Tail(order), backups, tiers, now, filled, keep)
    ELSE KeepFrom(Tail(order), backups, tiers, now, filled \cup {slot}, keep \cup {Head(order)})

Place(ti, age, order, backups, tiers, now, filled, keep) ==
    IF ti = 0 THEN KeepFrom(Tail(order), backups, tiers, now, filled, keep)
    ELSE IF tiers[ti][2] = 0 THEN Raise("ZeroDivisionError")
    ELSE Fill(<<ti, FloorDiv(age, tiers[ti][2])>>, order, backups, tiers, now, filled, keep)

KeepFrom(order, backups, tiers, now, filled, keep) ==
    IF order = <<>> THEN Ok(keep)
    ELSE Place(TierIndex(tiers, now - backups[Head(order)]), now - backups[Head(order)], order, backups, tiers, now, filled, keep)

\* computeKeepSet: everything when there is no tier or no backup (step 1).
ComputeKeepSet(backups, tiers, now) ==
    IF tiers = None \/ tiers[1] = <<>> \/ DOMAIN backups = {} THEN Ok(DOMAIN backups)
    ELSE KeepFrom(SortedBackups(backups), backups, tiers[1], now, {}, {})

(***************************************************************************)
(* Archive identifiers and the matcher of TarsnapBackend.get_backups.      *)
(* An identifier is [pre, date, post]: the text before the date, the date  *)
(* text, the text after it, texts being sequences of pieces as in a target *)
(* template.                                                               *)
(***************************************************************************)
Ident(pre, date, post) == [pre |-> pre, date |-> date, post |-> post]

\* Template(job.target).substitute({'name': job.name, ...}): the pieces of
\* the target with the name put in ('None' for the job without a name).
TargetPieces(job) ==
    [i \in 1..Len(job.target[1]) |->
        IF job.target[1][i] = "$name" THEN (IF job.name = None THEN "None" ELSE job.name[1])
        ELSE job.target[1][i]]

DateAt(pieces) == CHOOSE i \in 1..Len(pieces) : pieces[i] = "$date"

PreOf(pieces) == SubSeq(pieces, 1, DateAt(pieces) - 1)
PostOf(pieces) == SubSeq(pieces, DateAt(pieces) + 1, Len(pieces))

\* get_backups, lines 75-82: the identifier matches "^pre(?P<date>.*?)post$".
Matches(id, job) ==
    id.pre = PreOf(TargetPieces(job)) /\ id.post = PostOf(TargetPieces(job))

\* Scanned with a date text that does not parse skipped, not raised.
Scanned_SkipBadDate(date, archives, i, job, backups) ==
    IF date.err # "none" THEN Ok(backups)
    ELSE Ok((archives[i] :> date.val) @@ backups)

\* get_backups, lines 84-85: parse_date raises, or the entry is stored.
Scanned(date, archives, i, job, backups) ==
    IF date.err # "none" THEN Raise("ValueError")
    ELSE Ok((archives[i] :> date.val) @@ backups)

\* get_backups, lines 79-87: the loop over the archive list from index i.
RECURSIVE ScanArchives(_, _, _, _)
ScanNext(r, archives, i, job) ==
    IF r.err # "none" THEN r ELSE ScanArchives(archives, i + 1, job, r.val)

ScanArchives(archives, i, job, backups) ==
    IF i > Len(archives) THEN Ok(backups)
    ELSE IF ~Matches(archives[i], job) THEN ScanArchives(archives, i + 1, job, backups)
    ELSE ScanNext(Scanned(parse_date(archives[i].date, job.dateformat), archives, i, job, backups), archives, i, job)

\* TarsnapBackend.get_backups on the archive list get_archives returned.
get_backups(archives, job) == ScanArchives(archives, 1, job, EmptyDict)

\* main, lines 403-411: the jobs to run, or the exception or exit.  `jobs` is
\* what line 394 or 400 bound: load_config_from_file returns the pair
\* (read_jobs, config), a tuple, which has neither keys() nor values().
select_jobs(js, wanted) ==
    IF wanted # {}
    THEN IF js.type # "dict" THEN Raise("AttributeError")
         ELSE IF wanted \ DOMAIN js.val # {} THEN Raise("exit1")
         ELSE Ok([type |-> "dict",
                  val |-> [n \in (DOMAIN js.val) \cap wanted |-> js.val[n]]])
    ELSE Ok(js)

(***************************************************************************)
(* Inputs.                                                                 *)
(***************************************************************************)
MaxTokens == 3

T_1d == <<"1", "d">>
T_7d == <<"7", "d">>
T_1h == <<"1", "h">>
T_90s == <<"9", "0", "s">>
T_0s == <<"0", "s">>
T_neg1d == <<"-", "1", "d">>
T_7d_1d == <<"7", "d", ";", "1", "d">>
T_1h_1d == <<"1", "h", ";", "1", "d">>
T_3parts == <<"1", "d", ";", "1", "h", ";", "1", "s">>
T_1d_ == <<"1", "d", ";">>
T_1x == <<"1", "x">>
T_d == <<"d">>
T_xd == <<"x", "d">>

SampleTokens ==
    {<<>>, T_1d, T_7d, T_1h, T_90s, T_0s, T_neg1d, T_7d_1d, T_1h_1d, T_3parts,
     T_1d_, T_1x, T_d, T_xd}

\* " ".join(tokens)
RECURSIVE JoinSp(_)
JoinSp(ts) ==
    IF ts = <<>> THEN <<>>
    ELSE IF Len(ts) = 1 THEN ts[1]
    ELSE ts[1] \o <<" ">> \o JoinSp(Tail(ts))

TokenSeqs == UNION {[1..n -> SampleTokens] : n \in 0..MaxTokens}

DeltaStrings == {None} \cup {Some(JoinSp(ts)) : ts \in TokenSeqs}

TplNameDate == <<"$name", "-", "$date">>
TplFixedDate == <<"x", "-", "$date">>
TplNoDate == <<"$name", "-", "fixed">>

D(k, v) == k :> v

SrcOpts == {D("source", "p1"), D("source", "p1") @@ D("sources", <<"p2">>)}

DeltaOpts ==
    {EmptyDict, D("delta", "imp"), D("delta", "nope"),
     D("deltas", Some(JoinSp(<<T_1h, T_7d_1d>>))), D("deltas", Some(T_1d)),
     D("deltas", Some(<<>>)), D("deltas", Some(JoinSp(<<T_3parts, T_1d>>))),
     D("deltas", Some(JoinSp(<<T_1h, T_xd>>))),
     D("delta", "imp") @@ D("deltas", Some(JoinSp(<<T_1h, T_1d>>)))}

TargetOpts ==
    {EmptyDict, D("target", Some(TplFixedDate)), D("target", Some(TplNoDate))}

ExtraOpts ==
    {EmptyDict, D("bogus", TRUE), D("alias", "al") @@ D("aliases", <<"al">>),
     D("exclude", "ex") @@ D("excludes", <<"ex">>),
     D("dateformat", Some(FmtBad)) @@ D("force", TRUE)}

JobDictsA == {s @@ d @@ t @@ x : s \in SrcOpts, d \in DeltaOpts, t \in TargetOpts, x \in ExtraOpts}

JobsSections ==
    {EmptyDict}
    \cup {D("a", Some(a)) : a \in JobDictsA}
    \cup {D("a", Some(a)) @@ D("b", None) : a \in JobDictsA}
    \cup {D("a", Some(a)) @@ D("b", Some(D("sources", <<"p1", "p2">>) @@ D("deltas", Some(JoinSp(<<T_3parts, T_1d>>))))) : a \in JobDictsA}

Configs ==
    [dateformat : {None, Some(FmtBad)},
     deltas : {None, Some(JoinSp(<<T_1d, T_7d>>)), Some(T_1d)},
     target : {None, Some(TplNameDate), Some(TplFixedDate)},
     delta_names : {EmptyDict, D("imp", Some(JoinSp(<<T_1h, T_1d, T_7d>>))), D("imp", None)},
     jobs : JobsSections,
     rest : {EmptyDict}]

\* The orders in which a dict's iteritems() may yield its keys.
Orders(d) ==
    {o \in [1..Cardinality(DOMAIN d) -> DOMAIN d] : \A i, j \in DOMAIN o : i # j => o[i] # o[j]}

\* What parse_args accepts (lines 362-370): with --config, no --target,
\* --sources, --dateformat or --deltas; job names only with --config.
Args ==
    [config : {TRUE}, jobs : {{}, {"a"}}, target : {None}, dateformat : {None}, sources : {<<>>}]
    \cup [config : {FALSE}, jobs : {{}}, target : {Some(TplFixedDate)}, dateformat : {None, Some(FmtDay), Some(FmtBad)}, sources : {<<"p1">>}]

NoConfig == [dateformat |-> None, deltas |-> None, target |-> None, delta_names |-> EmptyDict, jobs |-> EmptyDict, rest |-> EmptyDict]

NoArgs == [config |-> FALSE, jobs |-> {}, target |-> None, dateformat |-> None, sources |-> <<>>]

NoJobs == [type |-> "none", val |-> EmptyDict]

\* The instant the model's clock starts at: ten days after its origin.
T0 == 10 * SecondsPerDay

PreA == <<"a", "-">>

\* The archives of job "a": made 0 h, 12 h, 1 d 18 h, 4 d and 8 d before T0
\* with the default format, and one 12 h before T0 named to the minute.
IdA(age) == Ident(PreA, Strftime(T0 - age, FmtSeconds), <<>>)

IdAMinute(age) == Ident(PreA, Strftime(T0 - age, FmtMinutes), <<>>)

KeepIds ==
    {IdA(0), IdA(12 * SecondsPerHour), IdAMinute(12 * SecondsPerHour),
     IdA(42 * SecondsPerHour), IdA(4 * SecondsPerDay), IdA(8 * SecondsPerDay)}

MaxBackups == 4
MaxTiers == 3

KeepTokens == {T_1d, T_7d, T_7d_1d, T_1h, T_0s, T_neg1d}

\* The tier lists parse_deltas returns for the delta strings of up to
\* MaxTiers of these tokens, and None.
KeepTierLists ==
    {parse_deltas(ds).val :
        ds \in {d \in {None} \cup {Some(JoinSp(ts)) : ts \in UNION {[1..n -> KeepTokens] : n \in 0..MaxTiers}} :
                   parse_deltas(d).err = "none"}}

JobA == Job(Some("a"), None, Some(TplNameDate), None, None, Some(<<"p1">>), <<>>, FALSE, None, None)

\* The maps get_backups returns for job "a" on up to MaxBackups archives.
KeepBackups ==
    {get_backups(archives, JobA).val :
        archives \in UNION {{a \in [1..n -> KeepIds] : \A i, j \in 1..n : i < j => a[i] # a[j]} : n \in 0..MaxBackups}}

ConfIdle ==
    /\ delta_string = None /\ parsed = None /\ pc = "idle" /\ config = NoConfig
    /\ args = NoArgs /\ loaded = None /\ jobs = NoJobs

KeepIdle == kbackups = EmptyDict /\ ktiers = None /\ know = 0 /\ kept = None

Backend(al, st, cs, e) == [archive_list |-> al, store |-> st, calls |-> cs, err |-> e]

OpsIdle ==
    /\ sim = Backend(None, <<>>, <<>>, "none") /\ real = Backend(None, <<>>, <<>>, "none")
    /\ last = None /\ tnow = 0 /\ nops = 0

RunIdle ==
    /\ command = "none" /\ dryrun = FALSE /\ no_expire = FALSE /\ todo = <<>>
    /\ archive_list = None /\ store = <<>> /\ calls = <<>> /\ step = "idle"
    /\ pending = {} /\ clock = 0 /\ view = None /\ err = "none"

(***************************************************************************)
(* The retention call on its own.                                          *)
(***************************************************************************)
InitKeep ==
    /\ ConfIdle
    /\ RunIdle
    /\ OpsIdle
    /\ kbackups \in KeepBackups
    /\ ktiers \in KeepTierLists
    /\ know \in {T0, T0 + SecondsPerHour}
    /\ kept = None

\* expire.expire(backups, deltas), made at the instant know.
ApplyKeep ==
    /\ kept = None
    /\ pc = "idle"
    /\ kept' = Some(ComputeKeepSet(kbackups, ktiers, know))
    /\ UNCHANGED <<kbackups, ktiers, know, confVars, runVars, opsVars>>

NextKeep == ApplyKeep

SpecKeep == InitKeep /\ [][NextKeep]_vars

(***************************************************************************)
(* The parser on its own, and main up to its command loop.                 *)
(***************************************************************************)
InitConf ==
    /\ pc \in {"parse", "main"}
    /\ delta_string \in (IF pc = "parse" THEN DeltaStrings ELSE {None})
    /\ parsed = None
    /\ args \in (IF pc = "main" THEN Args ELSE {NoArgs})
    /\ config \in (IF args.config THEN Configs ELSE {NoConfig})
    /\ loaded = None
    /\ jobs = NoJobs
    /\ KeepIdle
    /\ RunIdle
    /\ OpsIdle

\* A call of parse_deltas.
ParseDeltas ==
    /\ pc = "parse"
    /\ parsed = None
    /\ parsed' = Some(parse_deltas(delta_string))
    /\ UNCHANGED <<delta_string, pc, config, args, loaded, jobs, keepVars, runVars, opsVars>>

\* main, lines 392-397: load the configuration; a ConfigError is logged and
\* main returns 1, any other exception leaves main.
AfterLoad(r) ==
    /\ loaded' = Some(r)
    /\ pc' = IF r.err = "none" THEN "select"
             ELSE IF r.err = "ConfigError" THEN "exit1" ELSE "crashed"
    /\ jobs' = IF r.err = "none" THEN [type |-> "tuple", val |-> r.val] ELSE jobs

MainLoadConfig ==
    /\ pc = "main"
    /\ args.config
    /\ \E no \in Orders(config.delta_names), jo \in Orders(config.jobs) :
         AfterLoad(load_config(config, no, jo))
    /\ UNCHANGED <<delta_string, parsed, config, args, keepVars, runVars, opsVars>>

\* main, lines 398-401: the single job of the command line.  The keyword
\* the deltas are passed under is '      deltas', which Job.__init__ does
\* not read, so the job's deltas are None.
MainCommandLineJob ==
    /\ pc = "main"
    /\ ~args.config
    /\ jobs' = [type |-> "dict", val |-> D("None", Job(None, None, args.target, args.dateformat, None, Some(args.sources), <<>>, None, None, None))]
    /\ pc' = "select"
    /\ UNCHANGED <<delta_string, parsed, config, args, loaded, keepVars, runVars, opsVars>>

\* main, lines 403-415: choose the jobs, build the command, start the loop
\* with jobs_to_run.values().
AfterSelect(r) ==
    /\ pc' = IF r.err = "exit1" THEN "exit1"
             ELSE IF r.err # "none" \/ r.val.type # "dict" THEN "crashed"
             ELSE "loop"
    /\ jobs' = IF r.err = "none" THEN r.val ELSE jobs

MainSelectJobs ==
    /\ pc = "select"
    /\ AfterSelect(select_jobs(jobs, args.jobs))
    /\ UNCHANGED <<delta_string, parsed, config, args, loaded, keepVars, runVars, opsVars>>

NextConf == ParseDeltas \/ MainLoadConfig \/ MainCommandLineJob \/ MainSelectJobs

SpecConf == InitConf /\ [][NextConf]_vars

(***************************************************************************)
(* The backend and main's command loop, lines 413-419, over the jobs of a  *)
(* dictionary of jobs.  main itself reaches the loop with the one job of   *)
(* the command line; with a configuration file it stops before the loop    *)
(* (select_jobs above), load_config returning a tuple.  The job lists here *)
(* are the values of the dictionaries the loop is written for.             *)
(***************************************************************************)
MaxJobs == 2
MaxArchives == 3

Range(seq) == {seq[i] : i \in 1..Len(seq)}

IdAGarbage == Ident(PreA, [fmt |-> "garbage", v |-> 0], <<>>)

IdB(age) == Ident(<<"b", "-">>, Strftime(T0 - age, FmtSeconds), <<>>)

StoreIds ==
    {IdA(12 * SecondsPerHour), IdA(42 * SecondsPerHour), IdA(8 * SecondsPerDay),
     IdAGarbage, IdB(8 * SecondsPerDay)}

Stores ==
    UNION {{a \in [1..n -> StoreIds] : \A i, j \in 1..n : i < j => a[i] # a[j]} : n \in 0..MaxArchives}

\* Job "a" with the tiers of "1d 7d;1d", job "b" without deltas, and the
\* job of the command line: no name, no deltas.
JobATiers == Job(Some("a"), None, Some(TplNameDate), None, parse_deltas(Some(JoinSp(<<T_1d, T_7d_1d>>))).val, Some(<<"p1">>), <<>>, FALSE, None, None)

JobB == Job(Some("b"), None, Some(TplNameDate), None, None, Some(<<"p1">>), <<>>, FALSE, None, None)

JobCmd == Job(None, None, Some(TplFixedDate), None, None, Some(<<"p1">>), <<>>, FALSE, None, None)

RunJobs == {JobATiers, JobB, JobCmd}

JobLists ==
    UNION {{js \in [1..n -> RunJobs] : \A i, j \in 1..n : i < j => js[i] # js[j]} : n \in 1..MaxJobs}

Call(op, arg, ok) == [op |-> op, arg |-> arg, ok |-> ok]

\* tarsnap: an archive is created once, and deleted only if it is there.
CanSucceed(op, arg, st) ==
    IF op = "create" THEN arg \notin Range(st)
    ELSE IF op = "delete" THEN arg \in Range(st)
    ELSE TRUE

StoreAfter(op, arg, ok, st) ==
    IF ~ok THEN st
    ELSE IF op = "create" THEN Append(st, arg)
    ELSE IF op = "delete" THEN SelectSeq(st, LAMBDA x : x # arg)
    ELSE st

\* get_archives with `if not self._archive_list` for its test.
NeedsListing_WhenEmpty(al) == al = None \/ al[1] = <<>>

\* get_archives, line 65.
NeedsListing(al) == al = None

\* _call without its test of the return code.
Raises_Never(ok) == FALSE

\* _call, lines 57-58: a return code other than 0 raises TarsnapError.
Raises(ok) == ~ok

\* get_archives: the list, and the call log after it; ok is the outcome of
\* the --list-archives call if one is made.
get_archives(al, st, cs, ok) ==
    IF ~NeedsListing(al) THEN [err |-> "none", archives |-> al[1], calls |-> cs]
    ELSE IF Raises(ok) THEN [err |-> "TarsnapError", archives |-> <<>>, calls |-> Append(cs, Call("list", None, ok))]
    ELSE [err |-> "none", archives |-> st, calls |-> Append(cs, Call("list", Some(st), ok))]

\* list.remove: the first occurrence goes.
RemoveFirst(seq, x) ==
    [i \in 1..(Len(seq) - 1) |->
        IF i < (CHOOSE k \in 1..Len(seq) : seq[k] = x /\ \A m \in 1..(k - 1) : seq[m] # x)
        THEN seq[i] ELSE seq[i + 1]]

\* expire deleting every backup of the job.
ToRemove_All(backups, to_keep) == DOMAIN backups

\* expire, lines 105-106: the backups that are not in to_keep.
ToRemove(backups, to_keep) == {name \in DOMAIN backups : name \notin to_keep}

\* make, lines 115-118: the target of the job at the instant now.
Target(j, now) ==
    Ident(PreOf(TargetPieces(j)),
          Strftime(now, IF Truthy(j.dateformat) THEN j.dateformat[1] ELSE DEFAULT_DATEFORMAT),
          PostOf(TargetPieces(j)))

\* The loop of main: the next job, or the end of the run.
Continue(rest) == IF rest = <<>> THEN "done" ELSE "loop"

Init ==
    /\ ConfIdle
    /\ KeepIdle
    /\ OpsIdle
    /\ command \in {"make", "expire", "list"}
    /\ dryrun \in (IF command = "list" THEN {FALSE} ELSE BOOLEAN)
    /\ no_expire \in (IF command = "make" THEN BOOLEAN ELSE {FALSE})
    /\ todo \in JobLists
    /\ store \in Stores
    /\ archive_list = None
    /\ calls = <<>>
    /\ step = "loop"
    /\ pending = {}
    /\ clock = T0
    /\ view = None
    /\ err = "none"

\* What a command's get_backups saw: the archive list, the length of the call
\* log after get_archives, the result, and how many such reads came before.
View(op, g, r) ==
    Some([op |-> op, job |-> Head(todo), archives |-> g.archives, ncalls |-> Len(g.calls), got |-> r,
          reads |-> IF view = None THEN 1 ELSE view[1].reads + 1])

JobFinished ==
    /\ step' = Continue(Tail(todo))
    /\ todo' = Tail(todo)
    /\ UNCHANGED err

StaysIn(where) ==
    /\ step' = where
    /\ UNCHANGED <<todo, err>>

Settings == <<command, dryrun, no_expire, confVars, keepVars, opsVars>>

Stopped(how, exc) ==
    /\ step' = how
    /\ err' = exc
    /\ UNCHANGED todo

\* A failed --list-archives call inside a command: TarsnapError.
ReadFailed(g) ==
    /\ calls' = g.calls
    /\ Stopped("failed", g.err)
    /\ UNCHANGED <<archive_list, store, pending, clock, view, Settings>>

\* ListCommand.run, lines 190-201.
ListGot(g, r) ==
    /\ archive_list' = Some(g.archives)
    /\ calls' = g.calls
    /\ view' = View("list", g, r)
    /\ IF r.err # "none" THEN Stopped("crashed", r.err) ELSE JobFinished
    /\ UNCHANGED <<store, pending, clock, Settings>>

ListRead(g) ==
    IF g.err # "none" THEN ReadFailed(g)
    ELSE ListGot(g, get_backups(g.archives, Head(todo)))

RunList ==
    /\ step = "loop"
    /\ command = "list"
    /\ \E ok \in BOOLEAN :
        /\ ~NeedsListing(archive_list) => ok
        /\ ListRead(get_archives(archive_list, store, calls, ok))

\* expire, lines 104-112: the loop over the backups begins.
ExpireLoop(rm) ==
    /\ pending' = rm
    /\ IF rm = {} THEN JobFinished ELSE StaysIn("deleting")

\* expire, lines 97-102: get_backups, then the retention call.
ExpireKept(g, r, k) ==
    IF k.err # "none" THEN Stopped("crashed", k.err) /\ UNCHANGED pending
    ELSE ExpireLoop(ToRemove(r.val, k.val))

ExpireGot(g, r) ==
    /\ archive_list' = Some(g.archives)
    /\ calls' = g.calls
    /\ view' = View("expire", g, r)
    /\ IF r.err # "none" THEN Stopped("crashed", r.err) /\ UNCHANGED pending
       ELSE ExpireKept(g, r, ComputeKeepSet(r.val, Head(todo).deltas, clock))
    /\ UNCHANGED <<store, clock, Settings>>

ExpireRead(g) ==
    IF g.err # "none" THEN ReadFailed(g)
    ELSE ExpireGot(g, get_backups(g.archives, Head(todo)))

\* ExpireCommand.run, and the expire of MakeCommand.run, lines 281-282.
ExpireBegin ==
    /\ step = "expire" \/ (step = "loop" /\ command = "expire")
    /\ \E ok \in BOOLEAN :
        /\ ~NeedsListing(archive_list) => ok
        /\ ExpireRead(get_archives(archive_list, store, calls, ok))

\* expire, lines 107-110: one backup of the loop.
Deleted(name, ok) ==
    /\ calls' = IF dryrun THEN calls ELSE Append(calls, Call("delete", name, ok))
    /\ store' = IF dryrun THEN store ELSE StoreAfter("delete", name, ok, store)
    /\ IF Raises(ok) THEN Stopped("failed", "TarsnapError") /\ UNCHANGED <<archive_list, pending>>
       ELSE /\ archive_list' = Some(RemoveFirst(archive_list[1], name))
            /\ pending' = pending \ {name}
            /\ IF pending \ {name} = {} THEN JobFinished ELSE StaysIn("deleting")
    /\ UNCHANGED <<view, clock, Settings>>

ExpireDelete ==
    /\ step = "deleting"
    /\ \E name \in pending, ok \in BOOLEAN :
        /\ dryrun => ok
        /\ (ok /\ ~dryrun) => CanSucceed("delete", name, store)
        /\ Deleted(name, ok)

\* make, line 129: self.archives.append(target).
Appended(target, g) ==
    /\ calls' = g.calls
    /\ IF g.err # "none" THEN Stopped("failed", g.err) /\ UNCHANGED archive_list
       ELSE /\ archive_list' = Some(Append(g.archives, target))
            /\ IF no_expire THEN JobFinished ELSE StaysIn("expire")

\* make, lines 125-126: the create call.
Created(target, okc, okl, st, cs) ==
    /\ store' = st
    /\ IF Raises(okc) /\ ~dryrun THEN calls' = cs /\ Stopped("failed", "TarsnapError") /\ UNCHANGED archive_list
       ELSE Appended(target, get_archives(archive_list, st, cs, okl))

Made(target, okc, okl) ==
    /\ dryrun => okc
    /\ (okc /\ ~dryrun) => CanSucceed("create", target, store)
    /\ Created(target, okc, okl,
               IF dryrun THEN store ELSE StoreAfter("create", target, okc, store),
               IF dryrun THEN calls ELSE Append(calls, Call("create", target, okc)))

\* MakeCommand.run, lines 252-282, up to its call of expire.
Make(missing, now, okc, okl) ==
    /\ clock' = now
    /\ view' = None
    /\ UNCHANGED <<pending, Settings>>
    /\ IF Head(todo).sources = None
       THEN Stopped("crashed", "TypeError") /\ UNCHANGED <<archive_list, store, calls>>
       ELSE IF missing
       THEN /\ IF Head(todo).name # None THEN Stopped("crashed", "NameError") ELSE JobFinished
            /\ UNCHANGED <<archive_list, store, calls>>
       ELSE Made(Target(Head(todo), now), okc, okl)

RunMake ==
    /\ step = "loop"
    /\ command = "make"
    /\ \E missing \in BOOLEAN, dt \in {0, SecondsPerHour}, okc \in BOOLEAN, okl \in BOOLEAN :
        Make(missing, clock + dt, okc, okl)

Next == RunList \/ RunMake \/ ExpireBegin \/ ExpireDelete

Spec == Init /\ [][Next]_vars

(***************************************************************************)
(* Two backends given the same make and expire operations from the same    *)
(* archive store: sim in dry-run mode, real not.  Every call to tarsnap    *)
(* succeeds when it can.  An operation is taken as a whole; expire deletes *)
(* in one of the orders the dict of backups may have, on which neither the *)
(* cache nor the store it ends with depend.                                *)
(***************************************************************************)
MaxOps == 3

\* Job "c": the fixed target "x-$date" of the command-line job, with the
\* tiers of "1d 7d;1d".
JobFix == Job(Some("c"), None, Some(TplFixedDate), None, parse_deltas(Some(JoinSp(<<T_1d, T_7d_1d>>))).val, Some(<<"p1">>), <<>>, FALSE, None, None)

OpJobs == {JobATiers, JobCmd, JobFix}

Errored(b, cs, e) == Backend(b.archive_list, b.store, cs, e)

\* make, line 129: self.archives.append(target).
MakeAppended(b, target, g) ==
    IF g.err # "none" THEN Errored(b, g.calls, g.err)
    ELSE Backend(Some(Append(g.archives, target)), b.store, g.calls, "none")

\* make, lines 125-126: the create call, with outcome ok.
MakeCreated(b, target, ok) ==
    IF Raises(ok) THEN Errored(b, Append(b.calls, Call("create", target, ok)), "TarsnapError")
    ELSE MakeAppended(Backend(b.archive_list, StoreAfter("create", target, ok, b.store), b.calls, "none"), target,
                      get_archives(b.archive_list, StoreAfter("create", target, ok, b.store), Append(b.calls, Call("create", target, ok)), TRUE))

\* TarsnapBackend.make of the backend b, at the instant now.
BackendMake(b, target, dry) ==
    IF dry THEN MakeAppended(b, target, get_archives(b.archive_list, b.store, b.calls, TRUE))
    ELSE MakeCreated(b, target, CanSucceed("create", target, b.store))

\* expire, lines 105-110: the loop over the backups to delete.
RECURSIVE DeleteAll(_, _, _)
DeleteCalled(b, name, names, dry, ok) ==
    IF Raises(ok) THEN Errored(b, Append(b.calls, Call("delete", name, ok)), "TarsnapError")
    ELSE DeleteAll(Backend(Some(RemoveFirst(b.archive_list[1], name)),
                           IF dry THEN b.store ELSE StoreAfter("delete", name, ok, b.store),
                           IF dry THEN b.calls ELSE Append(b.calls, Call("delete", name, ok)), "none"),
                   names \ {name}, dry)

DeleteNext(b, name, names, dry) ==
    DeleteCalled(b, name, names, dry, dry \/ CanSucceed("delete", name, b.store))

DeleteAll(b, names, dry) ==
    IF names = {} THEN b ELSE DeleteNext(b, CHOOSE n \in names : TRUE, names, dry)

\* expire, lines 97-102.
ExpireKeeping(b, r, k, dry) ==
    IF k.err # "none" THEN Errored(b, b.calls, k.err)
    ELSE DeleteAll(b, ToRemove(r.val, k.val), dry)

ExpireMatched(b, r, j, now, dry) ==
    IF r.err # "none" THEN Errored(b, b.calls, r.err)
    ELSE ExpireKeeping(b, r, ComputeKeepSet(r.val, j.deltas, now), dry)

ExpireListed(b, g, j, now, dry) ==
    IF g.err # "none" THEN Errored(b, g.calls, g.err)
    ELSE ExpireMatched(Backend(Some(g.archives), b.store, g.calls, "none"), get_backups(g.archives, j), j, now, dry)

\* TarsnapBackend.expire of the backend b, at the instant now.
BackendExpire(b, j, now, dry) ==
    ExpireListed(b, get_archives(b.archive_list, b.store, b.calls, TRUE), j, now, dry)

InitOps ==
    /\ ConfIdle
    /\ KeepIdle
    /\ RunIdle
    /\ \E st \in Stores :
        /\ sim = Backend(None, st, <<>>, "none")
        /\ real = Backend(None, st, <<>>, "none")
    /\ last = None
    /\ tnow = T0
    /\ nops = 0

OpsGoing == nops < MaxOps /\ sim.err = "none" /\ real.err = "none"

OpDone(op, j, now) ==
    /\ last' = Some([op |-> op, job |-> j, now |-> now, before |-> real])
    /\ tnow' = now
    /\ nops' = nops + 1
    /\ UNCHANGED <<confVars, keepVars, runVars>>

\* backend.make(job) on both backends.
OpMake ==
    /\ OpsGoing
    /\ \E j \in OpJobs, dt \in {0, SecondsPerHour} :
        /\ sim' = BackendMake(sim, Target(j, tnow + dt), TRUE)
        /\ real' = BackendMake(real, Target(j, tnow + dt), FALSE)
        /\ OpDone("make", j, tnow + dt)

\* backend.expire(job) on both backends.
OpExpire ==
    /\ OpsGoing
    /\ \E j \in OpJobs :
        /\ sim' = BackendExpire(sim, j, tnow, TRUE)
        /\ real' = BackendExpire(real, j, tnow, FALSE)
        /\ OpDone("expire", j, tnow)

NextOps == OpMake \/ OpExpire

SpecOps == InitOps /\ [][NextOps]_vars

(***************************************************************************)
(* Properties of the parser and the loader (SpecConf).                     *)
(***************************************************************************)
Count(text, c) == Cardinality({i \in 1..Len(text) : text[i] = c})

IsBlank(piece) == \A i \in 1..Len(piece) : piece[i] = " "

\* The items a delta string is made of: its non-blank pieces, in order.
ItemsOf(text) == SelectSeq(Split(text, " "), LAMBDA piece : ~IsBlank(piece))

\* A duration as the grammar has it: an integer, then one of s, h, d.
IsDuration(text) ==
    /\ Len(text) >= 2
    /\ text[Len(text)] \in {"s", "h", "d"}
    /\ \A i \in 2..(Len(text) - 1) : text[i] \in Digits
    /\ text[1] \in Digits \/ (text[1] \in {"-", "+"} /\ Len(text) >= 3)

\* An item as the grammar has it: a duration, or two joined by one ';'.
IsTierItem(item) ==
    /\ Count(item, ";") <= 1
    /\ \A i \in 1..Len(Split(item, ";")) : IsDuration(Split(item, ";")[i])

GrammarOk(ds) == ds = None \/ \A i \in 1..Len(ItemsOf(ds[1])) : IsTierItem(ItemsOf(ds[1])[i])

TierCountOk(deltas) == deltas = None \/ Len(deltas[1]) = 0 \/ Len(deltas[1]) >= 2

\* A delta string of exactly one item, which the grammar accepts.
OneTier(ds) == ds # None /\ Len(ItemsOf(ds[1])) = 1 /\ GrammarOk(ds)

ParsedOk == parsed # None /\ parsed[1].err = "none"

LoadedOk == loaded # None /\ loaded[1].err = "none"

JobDictOf(cfg, n) == IF cfg.jobs[n] = None THEN EmptyDict ELSE cfg.jobs[n][1]

\* Some delta string of the configuration has exactly one tier.
OneTierSomewhere(cfg) ==
    \/ OneTier(cfg.deltas)
    \/ \E k \in DOMAIN cfg.delta_names : OneTier(cfg.delta_names[k])
    \/ \E n \in DOMAIN cfg.jobs : OneTier(Get(JobDictOf(cfg, n), "deltas", None))

\* C4: parse_deltas returns None, an empty list or at least two tiers, and
\* so does every job load_config returns hold, whether its tiers are its
\* own, a named set or the global default; a delta string of exactly one
\* tier makes parse_deltas raise ConfigError, and a configuration holding
\* one makes load_config raise, so that no job is returned.
C4_TierCount ==
    /\ ParsedOk => TierCountOk(parsed[1].val)
    /\ (parsed # None /\ OneTier(delta_string)) => parsed[1].err = "ConfigError"
    /\ LoadedOk => \A n \in DOMAIN loaded[1].val[1] : TierCountOk(loaded[1].val[1][n].deltas)
    /\ (loaded # None /\ OneTierSomewhere(config)) => (loaded[1].err # "none" /\ jobs = NoJobs)

\* A job took the tiers of a named set, another fell back to the global
\* default, and both have at least two.
C4_Witness ==
    /\ LoadedOk
    /\ \E n \in DOMAIN loaded[1].val[1] :
         /\ Has(JobDictOf(config, n), "delta")
         /\ Len(loaded[1].val[1][n].deltas[1]) >= 2
    /\ \E n \in DOMAIN loaded[1].val[1] :
         /\ ~Has(JobDictOf(config, n), "delta") /\ ~Has(JobDictOf(config, n), "deltas")
         /\ config.deltas # None
         /\ Len(loaded[1].val[1][n].deltas[1]) >= 2

\* Some item of the delta string holds more than one ';', and every item
\* before it is one the grammar accepts.
MultiSemicolon(ds) ==
    /\ ds # None
    /\ \E i \in 1..Len(ItemsOf(ds[1])) :
         /\ Count(ItemsOf(ds[1])[i], ";") > 1
         /\ \A j \in 1..(i - 1) : IsTierItem(ItemsOf(ds[1])[j])

\* C5: parsing a delta string with an item that holds more than one ';'
\* fails with ConfigError, as every other violation of the grammar does.
C5_MultiSemicolonIsConfigError ==
    (parsed # None /\ MultiSemicolon(delta_string)) => parsed[1].err = "ConfigError"

\* Every other violation of the grammar is a ConfigError: the exception of
\* a delta string the grammar refuses is ConfigError unless an item with
\* more than one ';' is reached.
C5_OtherViolations ==
    (parsed # None /\ ~GrammarOk(delta_string) /\ parsed[1].err # "ConfigError")
        => (parsed[1].err = "UnboundLocalError" /\ MultiSemicolon(delta_string))

TierWellFormed(tier) == tier[2] > 0 /\ tier[2] <= tier[1] /\ tier[1] >= 0

WellFormed(tiers) ==
    /\ \A i \in 1..Len(tiers) : TierWellFormed(tiers[i])
    /\ \A i \in 1..(Len(tiers) - 1) : tiers[i][1] <= tiers[i + 1][1]

\* C6 as claimed: every tier list parse_deltas returns has tiers with
\* resolution > 0, resolution <= window, window >= 0, in ascending order of
\* window.
C6_AcceptedIsWellFormed ==
    (ParsedOk /\ parsed[1].val # None) => WellFormed(parsed[1].val[1])

\* The duration a duration text of the grammar stands for.
DurationOf(text) ==
    (IF text[1] = "-" THEN 0 - DigitsVal(SelectSeq(ButLast(text), LAMBDA c : c \in Digits))
     ELSE DigitsVal(SelectSeq(ButLast(text), LAMBDA c : c \in Digits)))
    * (CASE text[Len(text)] = "s" -> 1 [] text[Len(text)] = "h" -> SecondsPerHour [] text[Len(text)] = "d" -> SecondsPerDay)

FirstPart(item) == Split(item, ";")[1]
LastPart(item) == Split(item, ";")[Len(Split(item, ";"))]

\* C6 as amended: a tier list parse_deltas returns holds one tier per item
\* of the delta string, in the order written; the window is the duration
\* of the item's first text and the resolution that of its last, so that
\* an item without ';' gives resolution = window.  (Sign, resolution <=
\* window and the order of the windows are as written, not checked.)
C6_TiersAsWritten ==
    (ParsedOk /\ parsed[1].val # None) =>
        /\ Len(parsed[1].val[1]) = Len(ItemsOf(delta_string[1]))
        /\ \A i \in 1..Len(parsed[1].val[1]) :
             /\ parsed[1].val[1][i][1] = DurationOf(FirstPart(ItemsOf(delta_string[1])[i]))
             /\ parsed[1].val[1][i][2] = DurationOf(LastPart(ItemsOf(delta_string[1])[i]))
             /\ Count(ItemsOf(delta_string[1])[i], ";") = 0
                    => parsed[1].val[1][i][2] = parsed[1].val[1][i][1]

\* A list was accepted with a "window;resolution" tier and a plain one, and
\* it is not well formed.
C6_Witness ==
    /\ ParsedOk /\ parsed[1].val # None
    /\ \E i, j \in 1..Len(parsed[1].val[1]) :
         /\ Count(ItemsOf(delta_string[1])[i], ";") = 1
         /\ Count(ItemsOf(delta_string[1])[j], ";") = 0
         /\ parsed[1].val[1][i][1] # parsed[1].val[1][i][2]
    /\ ~WellFormed(parsed[1].val[1])

Contradictory(d) ==
    \/ Has(d, "source") /\ Has(d, "sources")
    \/ Has(d, "alias") /\ Has(d, "aliases")
    \/ Has(d, "exclude") /\ Has(d, "excludes")
    \/ Has(d, "delta") /\ Has(d, "deltas")

\* A defect of the configuration that load_config is written to refuse:
\* tier grammar, a single tier, contradictory or unknown fields, a named
\* delta that is not defined or has no value, a target without its
\* placeholders, no target, no jobs.
ConfigDefect(cfg) ==
    \/ ~GrammarOk(cfg.deltas) \/ OneTierSomewhere(cfg)
    \/ \E k \in DOMAIN cfg.delta_names : cfg.delta_names[k] = None \/ ~GrammarOk(cfg.delta_names[k])
    \/ require_placeholders_raises(cfg.target, {"$name", "$date"})
    \/ DOMAIN cfg.jobs = {}
    \/ \E n \in DOMAIN cfg.jobs :
         \/ Contradictory(JobDictOf(cfg, n))
         \/ ~(DOMAIN JobDictOf(cfg, n) \subseteq JobKeys)
         \/ Has(JobDictOf(cfg, n), "delta") /\ ~Has(cfg.delta_names, JobDictOf(cfg, n)["delta"])
         \/ ~GrammarOk(Get(JobDictOf(cfg, n), "deltas", None))
         \/ ~Truthy(Get(JobDictOf(cfg, n), "target", cfg.target))
         \/ require_placeholders_raises(Get(JobDictOf(cfg, n), "target", cfg.target), {"$date"})

\* The configuration names a date format that strptime refuses.
BadDateFormat(cfg) ==
    \/ cfg.dateformat = Some(FmtBad)
    \/ \E n \in DOMAIN cfg.jobs : Get(JobDictOf(cfg, n), "dateformat", None) = Some(FmtBad)

KeptOk == kept # None /\ kept[1].err = "none"

HasTiers == ktiers # None /\ ktiers[1] # <<>>

\* The first backup in the order "timestamp descending, ties by identifier
\* ascending".
Newer(x, y) ==
    kbackups[x] > kbackups[y] \/ (kbackups[x] = kbackups[y] /\ IdLess(x, y))

Newest(backups) ==
    CHOOSE x \in DOMAIN backups : \A y \in DOMAIN backups \ {x} : Newer(x, y)

Age(id) == know - kbackups[id]

Expired(id) == TierIndex(ktiers[1], Age(id)) = 0

\* The (tierIndex, bucket) pair of a backup that is not expired.
PairOf(id) ==
    <<TierIndex(ktiers[1], Age(id)), FloorDiv(Age(id), ktiers[1][TierIndex(ktiers[1], Age(id))][2])>>

Assigned == {id \in DOMAIN kbackups : ~Expired(id)}

NewestOfPair(id) ==
    \A y \in Assigned \ {id} : PairOf(y) = PairOf(id) => Newer(id, y)

\* C1: for every non-empty backup set, every non-empty tier list and every
\* instant now, the keep set of computeKeepSet contains the newest backup,
\* the first in the order timestamp descending, ties by identifier ascending.
C1_NewestAlwaysKept ==
    (KeptOk /\ HasTiers /\ DOMAIN kbackups # {}) => Newest(kbackups) \in kept[1].val

\* C2: after computeKeepSet at most one kept backup is assigned to any
\* (tierIndex, bucket) pair; the kept backup of a pair is the newest of all
\* backups assigned to that pair, and every backup that is not expired and
\* is the newest of its pair is kept.
C2_OnePerPairTheNewest ==
    (KeptOk /\ HasTiers) =>
        /\ kept[1].val \subseteq Assigned
        /\ \A x, y \in kept[1].val : x # y => PairOf(x) # PairOf(y)
        /\ \A x \in kept[1].val : NewestOfPair(x)
        /\ \A x \in Assigned : NewestOfPair(x) => x \in kept[1].val

\* Two backups of one pair, one kept and one dropped, and an expired one.
C2_Witness ==
    /\ KeptOk /\ HasTiers
    /\ \E x \in kept[1].val : \E y \in Assigned \ kept[1].val : PairOf(x) = PairOf(y) /\ kbackups[x] = kbackups[y]
    /\ \E z \in DOMAIN kbackups : Expired(z)
    /\ Cardinality(kept[1].val) >= 2

HasBadDate(archives, j) ==
    \E i \in 1..Len(archives) :
        Matches(archives[i], j) /\ parse_date(archives[i].date, j.dateformat).err # "none"

\* C8: if an archive identifier matching the job's template has a date text
\* that does not parse, at whatever position of the list, get_backups fails
\* as a whole with no partial map; expire then issues no delete call and
\* leaves the archive cache as it was.
C8_BadDateAbortsWholeCall ==
    (view # None /\ HasBadDate(view[1].archives, view[1].job)) =>
        /\ view[1].got = Raise("ValueError")
        /\ step = "crashed" /\ err = "ValueError"
        /\ pending = {}
        /\ Len(calls) = view[1].ncalls
        /\ archive_list = Some(view[1].archives)

\* An expire whose list has the bad identifier last, after a backup that
\* parses and that the tiers would expire.
C8_Witness ==
    /\ view # None /\ view[1].op = "expire" /\ view[1].job = JobATiers
    /\ Len(view[1].archives) >= 2
    /\ view[1].archives[1] = IdA(8 * SecondsPerDay)
    /\ view[1].archives[Len(view[1].archives)] = IdAGarbage
    /\ step = "crashed"

\* C9: once an external call fails the run stops: no call follows a failed
\* one, no create or delete is issued twice, and what was deleted before
\* the failure stays deleted.
C9_FailFast ==
    /\ \A i \in 1..(Len(calls) - 1) : calls[i].ok
    /\ (step = "failed") <=> (calls # <<>> /\ ~calls[Len(calls)].ok)
    /\ \A i, j \in 1..Len(calls) :
           (i < j /\ calls[i].op # "list" /\ calls[i].op = calls[j].op) => calls[i].arg # calls[j].arg
    /\ \A i \in 1..Len(calls) :
           (calls[i].op = "delete" /\ calls[i].ok) => calls[i].arg \notin Range(store)

\* A delete fails after an earlier delete of the same job went through,
\* with a later job still to run.
C9_Witness ==
    /\ step = "failed"
    /\ Len(todo) = 2
    /\ \E i \in 1..(Len(calls) - 1) : calls[i].op = "delete" /\ calls[i].ok
    /\ calls[Len(calls)].op = "delete"

ListCalls == {i \in 1..Len(calls) : calls[i].op = "list"}

\* C10: within a run the archive listing is queried at most once, also when
\* the first listing was empty; the cache exists exactly when that query
\* went through.
C10_ListedAtMostOnce ==
    /\ Cardinality(ListCalls) <= 1
    /\ (archive_list # None) <=> (\E i \in ListCalls : calls[i].ok)

\* The second job reads the archive list after the first listing came back
\* empty.
C10_Witness ==
    /\ view # None /\ view[1].reads = 2
    /\ view[1].archives = <<>>
    /\ Len(calls) = 1 /\ calls[1] = Call("list", Some(<<>>), TRUE)

(***************************************************************************)
(* Claims about dry-run mode and the cache, under SpecOps.                 *)
(***************************************************************************)
\* C11: in dry-run mode no create and no delete call reaches tarsnap, and
\* after each operation the cached archive list is the same as in a real
\* run from the same listing in which every call succeeds.
C11_DryRunSameCache ==
    /\ \A i \in 1..Len(sim.calls) : sim.calls[i].op = "list"
    /\ (nops > 0 /\ sim.err = "none" /\ real.err = "none") => sim.archive_list = real.archive_list

\* The caches of the two runs hold the same identifiers, whatever the
\* number of times each.
C11_SameIdentifiers ==
    (nops > 0 /\ sim.err = "none" /\ real.err = "none") =>
        Range(sim.archive_list[1]) = Range(real.archive_list[1])

\* Dry-run mode issues nothing but the listing.
C11_NoCreateNoDelete ==
    \A i \in 1..Len(sim.calls) : sim.calls[i].op = "list"

\* The last operation was an expire that the real backend completed.
ExpireCompleted == last # None /\ last[1].op = "expire" /\ real.err = "none"

\* What that expire read: the archive list, the job's backups and keep set.
ReadBefore == get_archives(last[1].before.archive_list, last[1].before.store, last[1].before.calls, TRUE)

MatchedBefore == get_backups(ReadBefore.archives, last[1].job).val

KeepSetOf(backups) == ComputeKeepSet(backups, last[1].job.deltas, last[1].now).val

RemoveSetOf(backups) == DOMAIN backups \ KeepSetOf(backups)

\* The calls the expire issued after reading the archive list.
IssuedAfter(n) == SubSeq(real.calls, n + 1, Len(real.calls))

OneDeleteEach(issued, rm) ==
    /\ Len(issued) = Cardinality(rm)
    /\ {issued[i].arg : i \in 1..Len(issued)} = rm
    /\ \A i \in 1..Len(issued) : issued[i].op = "delete" /\ issued[i].ok

OthersUntouched(archives) ==
    \A i \in 1..Len(archives) :
        ~Matches(archives[i], last[1].job) =>
            /\ archives[i] \in Range(real.archive_list[1])
            /\ archives[i] \in Range(last[1].before.store) => archives[i] \in Range(real.store)

DeletedExactly(backups) ==
    /\ OneDeleteEach(IssuedAfter(Len(ReadBefore.calls)), RemoveSetOf(backups))
    /\ \A id \in RemoveSetOf(backups) : id \notin Range(real.store)
    /\ \A id \in KeepSetOf(backups) : id \in Range(real.archive_list[1])
    /\ OthersUntouched(ReadBefore.archives)

\* C12: expire(job) issues one delete call for each matched backup that is
\* not in the keep set and removes that identifier from the cache, issues
\* no delete for a kept backup, and leaves every archive that does not
\* match the job's template undeleted and in the cache.
C12_DeletesExactlyRemoveSet ==
    ExpireCompleted =>
        /\ DeletedExactly(MatchedBefore)
        /\ \A id \in RemoveSetOf(MatchedBefore) : id \notin Range(real.archive_list[1])

\* The same but for the cache: the delete calls are those of the remove
\* set, one each, what is kept stays cached, other archives are untouched.
C12_CallsAndFrame ==
    ExpireCompleted => DeletedExactly(MatchedBefore)

\* An expire that deleted a backup of its job and kept another, beside an
\* archive of another job.
C12_Reached ==
    /\ ExpireCompleted
    /\ RemoveSetOf(MatchedBefore) # {} /\ KeepSetOf(MatchedBefore) # {}
    /\ \E i \in 1..Len(ReadBefore.archives) : ~Matches(ReadBefore.archives[i], last[1].job)

(***************************************************************************)
(* The cache against the archive store, under Spec.                        *)
(***************************************************************************)
NoDuplicates(seq) == \A i, j \in 1..Len(seq) : i < j => seq[i] # seq[j]

\* A real run in which no call has failed, with the cache filled.
RealRunCached ==
    /\ ~dryrun
    /\ archive_list # None
    /\ \A i \in 1..Len(calls) : calls[i].ok

\* C13: in a real run in which every call succeeds, after any make and
\* expire (a make that is the first to touch the cache included) the cache
\* holds each identifier at most once and holds exactly the identifiers of
\* tarsnap's archive store.
C13_CacheIsTheStore ==
    RealRunCached =>
        /\ NoDuplicates(archive_list[1])
        /\ Range(archive_list[1]) = Range(store)

\* A make command whose make was the first to read the archive list.
C13_Reached ==
    /\ RealRunCached /\ command = "make"
    /\ Len(calls) = 2 /\ calls[1].op = "create" /\ calls[2].op = "list"

====
